---- MODULE Spec2Model ----
(***************************************************************************)
(* Session authority of the gym-management application: the route handlers *)
(* login, logout, me (resolveSession), change-password, signup and         *)
(* assistant deletion, run against the users and sessions tables of the    *)
(* SQLite file opened by openDb.                                           *)
(*                                                                         *)
(* Every handler is an async function.  A handler is cut at the awaits on  *)
(* storage: the JavaScript between two awaits runs without interruption    *)
(* and is one action together with the storage statement it issues; other  *)
(* requests may run between two actions of the same request.               *)
(*                                                                         *)
(* Time is a counter of 12-hour units, so that the 24 hours added by       *)
(* login are Hours24 = 2 units.  setHours works on local wall-clock time;  *)
(* the model takes the server's zone offset as fixed (no transition        *)
(* inside a session's lifetime).                                           *)
(*                                                                         *)
(* randomBytes(32) is modelled as a fresh value: a token that no request   *)
(* has presented and no login has generated before.  Tokens are numbered   *)
(* in the order of generation; clients present tokens already generated,   *)
(* or BogusToken, which is never generated.  Token 0 is the empty string.  *)
(*                                                                         *)
(* openDb creates users(id, email, password) only if the table does not    *)
(* exist, while signup and assistant deletion name the columns role and    *)
(* admin_id.  The columns of the users table are therefore a property of   *)
(* the database file the server is started on: usersCols is either the     *)
(* columns openDb creates or those plus role and admin_id.                 *)
(* In both cases the table carries the constraints openDb declares: id is   *)
(* INTEGER PRIMARY KEY AUTOINCREMENT and email is UNIQUE.  No connection   *)
(* enables foreign keys, so the reference of sessions.userId to users.id   *)
(* is not enforced.                                                        *)
(***************************************************************************)
EXTENDS Integers, FiniteSets, Sequences, TLC

\* ---------------------------------------------------------------- bounds
MaxTime == 3
MaxTokens == 2
MaxUsers == 2
MaxInflight == 1
MaxConcurrent == 2
MaxMembers == 2
MantissaBits == 3

\* ------------------------------------------------------ program constants
Hours24 == 2

\* ------------------------------------------------------------ input sets
Procs == 1..MaxInflight
Emails == {"a@x.com", "b@x.com"}
Passwords == {"secret", "hunter2"}
BogusToken == MaxTokens + 1
AdminIds == {1}

BaseCols == {"id", "email", "password"}
RoleCols == BaseCols \cup {"role", "admin_id"}

VARIABLES
    usersCols,   \* columns of the users table in database.db
    users,       \* rows of the users table
    lastID,      \* AUTOINCREMENT sequence of users.id
    sessions,    \* rows of the sessions table
    now,         \* Date.now()
    nextTok,     \* number of tokens randomBytes has produced
    req,         \* in-flight requests: locals and position of each handler
    sent,        \* the response sent by the latest step (NoResponse if it sent none)
    issued,      \* history: (token, credential id, time) of each login not yet logged out
    revoked,     \* history: generated tokens for which a logout has completed
    failed,      \* history: generated tokens me has refused as expired or not stored
    plain,       \* history: credential id -> plaintext last set by signup/change-password
    settings,    \* rows of the settings table
    members,     \* rows of the members table, in rowid order
    posted,      \* history: the body of the latest POST /api/settings answered 204
    provider,    \* AuthProvider: the React state user, loading, isAuthenticated
    pathname,    \* usePathname()
    calls,       \* AuthProvider: fetches awaited by fetchUser, signIn and signOut
    effectDue,   \* AuthProvider: the effects scheduled by the last commit, not yet run
    pushed       \* the caller of the router.push('/') under way ("none" if there is none)

pricingVars == <<settings, members, posted>>
clientVars == <<provider, pathname, calls, effectDue, pushed>>
vars == <<usersCols, users, lastID, sessions, now, nextTok, req, sent, issued, revoked, failed,
         plain, pricingVars, clientVars>>
store == <<users, lastID, sessions>>

\* ------------------------------------------------------------- lib/crypto
hashPassword(password) == <<"sha256", password>>

\* ---------------------------------------------------------------- helpers
Idle == [op |-> "idle"]

Text(s) == [kind |-> "text", text |-> s]
Json(v) == [kind |-> "json", json |-> v]
NoBody == [kind |-> "none"]
NoCookie == [set |-> FALSE, value |-> 0, expires |-> 0]
SetCookie(v, e) == [set |-> TRUE, value |-> v, expires |-> e]

NoResponse == [op |-> "none", status |-> 0, body |-> NoBody, cookie |-> NoCookie, echo |-> <<>>]

\* a response: what the caller sees (status, body, cookie), and for the
\* properties the handler that sent it and the request it answers (echo)
Response(op, status, body, cookie, echo) ==
    [op |-> op, status |-> status, body |-> body, cookie |-> cookie, echo |-> echo]

Visible(resp) == [status |-> resp.status, body |-> resp.body, cookie |-> resp.cookie]

\* mutant: the row is returned as read
WithoutPassword_Identity(user) == user

\* const { password: _, ...userWithoutPassword } = user
WithoutPassword(user) == [c \in (DOMAIN user) \ {"password"} |-> user[c]]

\* SELECT * FROM users WHERE email = ?   (the result is {} or one row)
SelectUserByEmail(email) == {u \in users : u.email = email}
\* SELECT * FROM users WHERE id = ?
SelectUserById(id) == {u \in users : u.id = id}
\* SELECT * FROM sessions WHERE id = ?
SelectSession(token) == {s \in sessions : s.id = token}

\* cookie?.split(';').find(c => c.trim().startsWith('session_token='))?.split('=')[1]
\* A cookie header is a sequence of name/value pairs; no header is <<>>.
RECURSIVE ParseSessionToken(_)
ParseSessionToken(cookie) ==
    IF cookie = <<>> THEN 0
    ELSE IF Head(cookie).name = "session_token" THEN Head(cookie).value
    ELSE ParseSessionToken(Tail(cookie))

PresentableTokens == (1..nextTok) \cup {BogusToken}
\* the session cookie alone
SessionCookies == {<<[name |-> "session_token", value |-> k]>> : k \in PresentableTokens}
CookieHeaders ==
    {<<>>, <<[name |-> "theme", value |-> 1]>>, <<[name |-> "session_token", value |-> 0]>>}
    \cup {<<[name |-> "session_token", value |-> k]>> : k \in PresentableTokens}
    \cup {<<[name |-> "theme", value |-> 1], [name |-> "session_token", value |-> k]>> :
             k \in PresentableTokens}

\* ------------------------------------------------------------------ login
\* mutant: the 24 hours are not added
AddHours24_NoAdd(t) == t

\* expiresAt.setHours(expiresAt.getHours() + 24)
AddHours24(t) == t + Hours24

\* !user || user.password !== hashPassword(password)
CredentialsRejected(user, password) ==
    user = {} \/ \E u \in user : u.password # hashPassword(password)

\* mutant: an unknown email is answered 404
LoginResult_UserNotFound(r, t, token) ==
    IF r.user = {}
    THEN [sessions |-> sessions,
          resp |-> Response("login", 404, Text("User not found"), NoCookie, r)]
    ELSE IF CredentialsRejected(r.user, r.password)
    THEN [sessions |-> sessions,
          resp |-> Response("login", 401, Text("Invalid credentials"), NoCookie, r)]
    ELSE LET user == CHOOSE u \in r.user : TRUE
             expiresAt == AddHours24(t)
         IN [sessions |-> sessions \cup
                          {[id |-> token, userId |-> user.id, expiresAt |-> expiresAt]},
             resp |-> Response("login", 200, Json(WithoutPassword(user)),
                               SetCookie(token, expiresAt), r)]

\* mutant: the session row is inserted before the credentials are checked
LoginResult_InsertFirst(r, t, token) ==
    LET expiresAt == AddHours24(t)
        inserted == sessions \cup
            {[id |-> token, userId |-> u.id, expiresAt |-> expiresAt] : u \in r.user}
    IN IF CredentialsRejected(r.user, r.password)
       THEN [sessions |-> inserted,
             resp |-> Response("login", 401, Text("Invalid credentials"), NoCookie, r)]
       ELSE [sessions |-> inserted,
             resp |-> Response("login", 200, Json(WithoutPassword(CHOOSE u \in r.user : TRUE)),
                               SetCookie(token, expiresAt), r)]

\* mutant: a login re-activates the user's existing session row instead of inserting
LoginResult_Reactivate(r, t, token) ==
    IF CredentialsRejected(r.user, r.password)
    THEN [sessions |-> sessions,
          resp |-> Response("login", 401, Text("Invalid credentials"), NoCookie, r)]
    ELSE LET user == CHOOSE u \in r.user : TRUE
             expiresAt == AddHours24(t)
             old == {i.token : i \in {j \in issued : j.uid = user.id}} \cup
                    {k \in revoked : TRUE}
             id == IF old = {} THEN token ELSE CHOOSE k \in old : TRUE
         IN [sessions |-> {x \in sessions : x.id # id} \cup
                          {[id |-> id, userId |-> user.id, expiresAt |-> expiresAt]},
             resp |-> Response("login", 200, Json(WithoutPassword(user)),
                               SetCookie(id, expiresAt), r)]

\* mutant: a login replaces the earlier sessions of the user
LoginResult_SingleSession(r, t, token) ==
    IF CredentialsRejected(r.user, r.password)
    THEN [sessions |-> sessions,
          resp |-> Response("login", 401, Text("Invalid credentials"), NoCookie, r)]
    ELSE LET user == CHOOSE u \in r.user : TRUE
             expiresAt == AddHours24(t)
         IN [sessions |-> {x \in sessions : x.userId # user.id} \cup
                          {[id |-> token, userId |-> user.id, expiresAt |-> expiresAt]},
             resp |-> Response("login", 200, Json(WithoutPassword(user)),
                               SetCookie(token, expiresAt), r)]

\* login, from the check of the row read to the response
LoginResult(r, t, token) ==
    IF CredentialsRejected(r.user, r.password)
    THEN [sessions |-> sessions,
          resp |-> Response("login", 401, Text("Invalid credentials"), NoCookie, r)]
    ELSE LET user == CHOOSE u \in r.user : TRUE
             expiresAt == AddHours24(t)
         IN [sessions |-> sessions \cup
                          {[id |-> token, userId |-> user.id, expiresAt |-> expiresAt]},
             resp |-> Response("login", 200, Json(WithoutPassword(user)),
                               SetCookie(token, expiresAt), r)]

\* --------------------------------------------------- me (resolveSession)
Unauthorized(op, echo) == Response(op, 401, Text("Unauthorized"), NoCookie, echo)

\* !session || session.expiresAt < Date.now()
SessionRejected(session, t) ==
    session = {} \/ \E s \in session : s.expiresAt < t

\* mutant: an expired session is answered differently from an unknown one
MeResult_ExpiredLeak(r, t) ==
    IF r.session = {} THEN Unauthorized("me", r)
    ELSE IF SessionRejected(r.session, t)
    THEN Response("me", 401, Text("Session expired"), NoCookie, r)
    ELSE LET session == CHOOSE s \in r.session : TRUE
             user == SelectUserById(session.userId)
         IN IF user = {} THEN Unauthorized("me", r)
            ELSE Response("me", 200, Json(WithoutPassword(CHOOSE u \in user : TRUE)),
                          NoCookie, r)

\* mutant: the identity is taken from the session row when the user row is gone
MeResult_TrustSession(r, t) ==
    IF SessionRejected(r.session, t) THEN Unauthorized("me", r)
    ELSE LET session == CHOOSE s \in r.session : TRUE
             user == SelectUserById(session.userId)
         IN IF user = {}
            THEN Response("me", 200, Json([id |-> session.userId]), NoCookie, r)
            ELSE Response("me", 200, Json(WithoutPassword(CHOOSE u \in user : TRUE)),
                          NoCookie, r)

\* me, from the check of the session row read to the response
MeResult(r, t) ==
    IF SessionRejected(r.session, t) THEN Unauthorized("me", r)
    ELSE LET session == CHOOSE s \in r.session : TRUE
             user == SelectUserById(session.userId)
         IN IF user = {} THEN Unauthorized("me", r)
            ELSE Response("me", 200, Json(WithoutPassword(CHOOSE u \in user : TRUE)),
                          NoCookie, r)

\* ----------------------------------------------------------------- logout
\* mutant: the row is not deleted
DeleteSession_Keep(token) == sessions

\* mutant: logout deletes every session of the token's user
DeleteSession_AllOfUser(token) ==
    {s \in sessions : \A x \in SelectSession(token) : s.userId # x.userId}

\* DELETE FROM sessions WHERE id = ?
DeleteSession(token) == {s \in sessions : s.id # token}

\* mutant: the cookie is cleared only when a row was deleted
LogoutResult_ClearIfDeleted(r) ==
    [sessions |-> DeleteSession(r.token),
     resp |-> Response("logout", 200, Text("Logged out"),
                       IF SelectSession(r.token) = {} THEN NoCookie ELSE SetCookie(0, 0), r)]

\* mutant: a logout that finds no row to delete is answered 404
LogoutResult_NotFound(r) ==
    IF SelectSession(r.token) = {}
    THEN [sessions |-> sessions,
          resp |-> Response("logout", 404, Text("Not found"), NoCookie, r)]
    ELSE [sessions |-> DeleteSession(r.token),
          resp |-> Response("logout", 200, Text("Logged out"), SetCookie(0, 0), r)]

\* logout, from the DELETE to the response
LogoutResult(r) ==
    [sessions |-> DeleteSession(r.token),
     resp |-> Response("logout", 200, Text("Logged out"), SetCookie(0, 0), r)]

\* -------------------------------------------------------- change-password
\* mutant: the new password is stored without hashing
UpdatePassword_Plain(userId, newPassword) ==
    {IF u.id = userId THEN [u EXCEPT !.password = <<"plain", newPassword>>] ELSE u :
        u \in users}

\* mutant: the UPDATE has no WHERE clause
UpdatePassword_NoWhere(userId, newPassword) ==
    {[u EXCEPT !.password = hashPassword(newPassword)] : u \in users}

\* UPDATE users SET password = ? WHERE id = ?
UpdatePassword(userId, newPassword) ==
    {IF u.id = userId THEN [u EXCEPT !.password = hashPassword(newPassword)] ELSE u :
        u \in users}

\* mutant: the password is updated before the old one is checked
ChangePasswordResult_UpdateFirst(r) ==
    IF CredentialsRejected(r.user, r.oldPassword)
    THEN [users |-> UpdatePassword(r.userId, r.newPassword), sessions |-> sessions,
          resp |-> Response("changePassword", 401, Text("Invalid credentials"), NoCookie, r)]
    ELSE [users |-> UpdatePassword(r.userId, r.newPassword), sessions |-> sessions,
          resp |-> Response("changePassword", 204, NoBody, NoCookie, r)]

\* mutant: a password change deletes the credential's sessions
ChangePasswordResult_RevokeSessions(r) ==
    IF CredentialsRejected(r.user, r.oldPassword)
    THEN [users |-> users, sessions |-> sessions,
          resp |-> Response("changePassword", 401, Text("Invalid credentials"), NoCookie, r)]
    ELSE [users |-> UpdatePassword(r.userId, r.newPassword),
          sessions |-> {s \in sessions : s.userId # r.userId},
          resp |-> Response("changePassword", 204, NoBody, NoCookie, r)]

\* mutant: the UPDATE is conditional on the hash read (compare-and-set)
ChangePasswordResult_CompareAndSet(r) ==
    IF CredentialsRejected(r.user, r.oldPassword)
    THEN [users |-> users, sessions |-> sessions,
          resp |-> Response("changePassword", 401, Text("Invalid credentials"), NoCookie, r)]
    ELSE [users |-> {IF u.id = r.userId /\ u.password = hashPassword(r.oldPassword)
                     THEN [u EXCEPT !.password = hashPassword(r.newPassword)] ELSE u :
                        u \in users},
          sessions |-> sessions,
          resp |-> Response("changePassword", 204, NoBody, NoCookie, r)]

\* mutant: the password is changed only for the owner of the session presented
ChangePasswordResult_OwnSession(r) ==
    IF \/ CredentialsRejected(r.user, r.oldPassword)
       \/ \A x \in SelectSession(ParseSessionToken(r.cookie)) : x.userId # r.userId
    THEN [users |-> users, sessions |-> sessions,
          resp |-> Response("changePassword", 401, Text("Invalid credentials"), NoCookie, r)]
    ELSE [users |-> UpdatePassword(r.userId, r.newPassword), sessions |-> sessions,
          resp |-> Response("changePassword", 204, NoBody, NoCookie, r)]

\* change-password, from the check of the row read to the response
ChangePasswordResult(r) ==
    IF CredentialsRejected(r.user, r.oldPassword)
    THEN [users |-> users, sessions |-> sessions,
          resp |-> Response("changePassword", 401, Text("Invalid credentials"), NoCookie, r)]
    ELSE [users |-> UpdatePassword(r.userId, r.newPassword), sessions |-> sessions,
          resp |-> Response("changePassword", 204, NoBody, NoCookie, r)]

\* ----------------------------------------------------------------- signup
InternalServerError(op, echo) ==
    Response(op, 500, Text("Internal Server Error"), NoCookie, echo)

\* mutant: signup stores the password as received
SignupResult_Plaintext(email, password, admin_id) ==
    IF ~({"role", "admin_id"} \subseteq usersCols) \/ SelectUserByEmail(email) # {}
    THEN [users |-> users, lastID |-> lastID, resp |-> InternalServerError("signup", [email |-> email])]
    ELSE [users |-> users \cup {[id |-> lastID + 1, email |-> email,
                                 password |-> <<"plain", password>>,
                                 role |-> "assistant", admin_id |-> admin_id]},
          lastID |-> lastID + 1,
          resp |-> Response("signup", 200, Json([id |-> lastID + 1]), NoCookie, [email |-> email])]

\* mutant: the email is not checked for uniqueness (no UNIQUE on users.email)
SignupResult_NoUnique(email, password, admin_id) ==
    IF ~({"role", "admin_id"} \subseteq usersCols)
    THEN [users |-> users, lastID |-> lastID, resp |-> InternalServerError("signup", [email |-> email])]
    ELSE [users |-> users \cup {[id |-> lastID + 1, email |-> email,
                                 password |-> hashPassword(password),
                                 role |-> "assistant", admin_id |-> admin_id]},
          lastID |-> lastID + 1,
          resp |-> Response("signup", 200, Json([id |-> lastID + 1]), NoCookie, [email |-> email])]

\* INSERT INTO users (email, password, role, admin_id) VALUES (?, ?, 'assistant', ?)
\* faults when the table lacks a named column or the email is taken (UNIQUE)
SignupResult(email, password, admin_id) ==
    IF ~({"role", "admin_id"} \subseteq usersCols) \/ SelectUserByEmail(email) # {}
    THEN [users |-> users, lastID |-> lastID, resp |-> InternalServerError("signup", [email |-> email])]
    ELSE [users |-> users \cup {[id |-> lastID + 1, email |-> email,
                                 password |-> hashPassword(password),
                                 role |-> "assistant", admin_id |-> admin_id]},
          lastID |-> lastID + 1,
          resp |-> Response("signup", 200, Json([id |-> lastID + 1]), NoCookie, [email |-> email])]

\* ------------------------------------------------------ assistant deletion
\* DELETE FROM users WHERE id = ? AND role = 'assistant'
\* (foreign keys are not enforced: no PRAGMA foreign_keys = ON)
DeleteAssistantResult(id) ==
    IF "role" \notin usersCols
    THEN [users |-> users, resp |-> InternalServerError("deleteAssistant", [id |-> id])]
    ELSE [users |-> {u \in users : ~(u.id = id /\ u.role = "assistant")},
          resp |-> Response("deleteAssistant", 204, NoBody, NoCookie, [id |-> id])]

\* ---------------------------------------------------------- storage faults
StorageOps == {"login", "me", "logout", "changePassword"}

\* the handler's second storage call is reached: the INSERT of login, the
\* user read of me, the DELETE of logout, the UPDATE of change-password
ReachesSecondCall(r, t) ==
    CASE r.op = "login" -> ~CredentialsRejected(r.user, r.password)
      [] r.op = "me" -> ~SessionRejected(r.session, t)
      [] r.op = "logout" -> TRUE
      [] r.op = "changePassword" -> ~CredentialsRejected(r.user, r.oldPassword)
      [] OTHER -> FALSE

\* mutant: the faulted call is tried again and the handler goes on
FaultResult_Retry(r, t, token) ==
    CASE "call" \in DOMAIN r ->
           [users |-> users, sessions |-> sessions, resp |-> InternalServerError(r.op, r)]
      [] r.op = "login" ->
           [users |-> users, sessions |-> LoginResult(r, t, token).sessions,
            resp |-> LoginResult(r, t, token).resp]
      [] r.op = "me" -> [users |-> users, sessions |-> sessions, resp |-> MeResult(r, t)]
      [] r.op = "logout" ->
           [users |-> users, sessions |-> LogoutResult(r).sessions,
            resp |-> LogoutResult(r).resp]
      [] OTHER ->
           [users |-> ChangePasswordResult(r).users, sessions |-> sessions,
            resp |-> ChangePasswordResult(r).resp]

\* a rejected await throws into the handler's catch: the statement that
\* faulted has no effect, the response is built by the catch block alone
FaultResult(r, t, token) ==
    [users |-> users, sessions |-> sessions, resp |-> InternalServerError(r.op, r)]

\* ------------------------------------------------------------------- Init
\* CREATE TABLE IF NOT EXISTS settings / members: both tables start empty
NoPost == [posted |-> FALSE, body |-> <<>>, replaced |-> FALSE]
PricingInit ==
    /\ settings = {}
    /\ members = <<>>
    /\ posted = NoPost

\* useState(null), useState(true), useState(false); no fetch issued yet
\* after the first render both effects are due
NoUser == [null |-> TRUE, id |-> 0]
UserData(id) == [null |-> FALSE, id |-> id]
ClientInit(path) ==
    /\ provider = [user |-> NoUser, loading |-> TRUE, isAuthenticated |-> FALSE]
    /\ pathname = path
    /\ calls = {}
    /\ effectDue = {"fetchUser", "redirect"}
    /\ pushed = "none"

SeedBase == [id |-> 1, email |-> "a@x.com", password |-> hashPassword("secret")]
SeedAdmin == [id |-> 1, email |-> "a@x.com", password |-> hashPassword("secret"),
              role |-> "admin", admin_id |-> 0]

Init ==
    /\ \/ usersCols = BaseCols /\ users = {SeedBase}
       \/ usersCols = RoleCols /\ users = {SeedAdmin}
    /\ lastID = Cardinality(users)
    /\ plain = {[id |-> u.id, password |-> "secret"] : u \in users}
    /\ sessions = {}
    /\ now = 0
    /\ nextTok = 0
    /\ req = [p \in Procs |-> Idle]
    /\ sent = NoResponse
    /\ issued = {}
    /\ revoked = {}
    /\ failed = {}
    /\ PricingInit /\ ClientInit("/")

\* ---------------------------------------------------------------- actions
\* a new request takes the first free handler slot
CanStart(p) == req[p].op = "idle" /\ \A q \in DOMAIN req : q < p => req[q].op # "idle"

Finish(p, resp) ==
    /\ req' = [req EXCEPT ![p] = Idle]
    /\ sent' = resp

\* login: request.json(), openDb(), db.get(users by email)
LoginGet(p, email, password) ==
    /\ CanStart(p)
    /\ req' = [req EXCEPT ![p] = [op |-> "login", email |-> email, password |-> password,
                                  user |-> SelectUserByEmail(email),
                                  cred |-> {u.id : u \in {v \in users : v.email = email /\
                                      [id |-> v.id, password |-> password] \in plain}}]]
    /\ sent' = NoResponse
    /\ UNCHANGED <<usersCols, users, lastID, sessions, now, nextTok, issued, revoked, failed, plain>>
    /\ UNCHANGED <<pricingVars, clientVars>>

\* login: credential check, expiry, token, db.run(INSERT session), response
LoginInsert(p) ==
    /\ req[p].op = "login"
    /\ LET res == LoginResult(req[p], now, nextTok + 1)
       IN /\ res.resp.status = 200 => nextTok < MaxTokens
          /\ sessions' = res.sessions
          /\ Finish(p, res.resp)
          /\ IF res.resp.status = 200
             THEN /\ nextTok' = nextTok + 1
                  /\ issued' = issued \cup
                        {[token |-> nextTok + 1, at |-> now,
                          uid |-> (CHOOSE u \in req[p].user : TRUE).id,
                          orphan |-> req[p].user \cap users = {}]}
             ELSE UNCHANGED <<nextTok, issued>>
    /\ UNCHANGED <<usersCols, users, lastID, now, revoked, failed, plain>>
    /\ UNCHANGED <<pricingVars, clientVars>>

\* mutant: the session row is read before the token is looked at
MeGetSession_ReadFirst(p, cookie) ==
    /\ CanStart(p)
    /\ LET token == ParseSessionToken(cookie)
       IN /\ req' = [req EXCEPT ![p] = [op |-> "me", token |-> token,
                                        session |-> SelectSession(token),
                                        liveAtStart |-> \E i \in issued : i.token = token,
                                        revokedAtStart |-> token \in revoked,
                                        failedAtStart |-> token \in failed]]
          /\ sent' = NoResponse
    /\ UNCHANGED <<usersCols, users, lastID, sessions, now, nextTok, issued, revoked, failed, plain>>
    /\ UNCHANGED <<pricingVars, clientVars>>

\* me: cookie parsing, openDb(), db.get(session by token)
MeGetSession(p, cookie) ==
    /\ CanStart(p)
    /\ LET token == ParseSessionToken(cookie)
       IN IF token = 0
          THEN /\ sent' = Unauthorized("me", [token |-> 0])
               /\ UNCHANGED req
          ELSE /\ req' = [req EXCEPT ![p] = [op |-> "me", token |-> token,
                                             session |-> SelectSession(token),
                                             liveAtStart |-> \E i \in issued : i.token = token,
                                             revokedAtStart |-> token \in revoked,
                                             failedAtStart |-> token \in failed]]
               /\ sent' = NoResponse
    /\ UNCHANGED <<usersCols, users, lastID, sessions, now, nextTok, issued, revoked, failed, plain>>
    /\ UNCHANGED <<pricingVars, clientVars>>

\* mutant: a refused session row is swept from the table
MeGetUser_Sweep(p) ==
    /\ req[p].op = "me"
    /\ Finish(p, MeResult(req[p], now))
    /\ sessions' = IF SessionRejected(req[p].session, now)
                   THEN sessions \ req[p].session ELSE sessions
    /\ failed' = IF SessionRejected(req[p].session, now)
                 THEN failed \cup ({req[p].token} \cap (1..nextTok))
                 ELSE failed
    /\ UNCHANGED <<usersCols, users, lastID, now, nextTok, issued, revoked, plain>>
    /\ UNCHANGED <<pricingVars, clientVars>>

\* me: expiry check, db.get(user by id), response
MeGetUser(p) ==
    /\ req[p].op = "me"
    /\ Finish(p, MeResult(req[p], now))
    /\ failed' = IF SessionRejected(req[p].session, now)
                 THEN failed \cup ({req[p].token} \cap (1..nextTok))
                 ELSE failed
    /\ UNCHANGED <<usersCols, users, lastID, sessions, now, nextTok, issued, revoked, plain>>
    /\ UNCHANGED <<pricingVars, clientVars>>

\* logout: cookie parsing, openDb()
\* (history: peer marks logout requests that overlap another with the same token)
LogoutStart(p, cookie) ==
    /\ CanStart(p)
    /\ LET token == ParseSessionToken(cookie)
       IN IF token = 0
          THEN /\ sent' = Unauthorized("logout", [token |-> 0])
               /\ UNCHANGED req
          ELSE LET same(q) == req[q].op = "logout" /\ req[q].token = token
               IN /\ req' = [q \in DOMAIN req |->
                               IF q = p
                               THEN [op |-> "logout", token |-> token,
                                     revokedAtStart |-> token \in revoked,
                                     peer |-> \E o \in DOMAIN req : same(o)]
                               ELSE IF same(q) THEN [req[q] EXCEPT !.peer = TRUE]
                               ELSE req[q]]
                  /\ sent' = NoResponse
    /\ UNCHANGED <<usersCols, users, lastID, sessions, now, nextTok, issued, revoked, failed, plain>>
    /\ UNCHANGED <<pricingVars, clientVars>>

\* logout: db.run(DELETE session), response
LogoutDelete(p) ==
    /\ req[p].op = "logout"
    /\ LET res == LogoutResult(req[p])
       IN /\ sessions' = res.sessions
          /\ Finish(p, res.resp)
    /\ revoked' = revoked \cup ({req[p].token} \cap (1..nextTok))
    /\ issued' = {i \in issued : i.token # req[p].token}
    /\ UNCHANGED <<usersCols, users, lastID, now, nextTok, failed, plain>>
    /\ UNCHANGED <<pricingVars, clientVars>>

\* change-password: request.json(), openDb(), db.get(user by id)
\* (cookie is the request's cookie header, which the handler never reads;
\* history: peer marks requests for one id that have both read before either
\* wrote, stale those whose row has been changed by another request since)
ChangePasswordGet(p, cookie, userId, oldPassword, newPassword) ==
    /\ CanStart(p)
    /\ LET same(q) == req[q].op = "changePassword" /\ req[q].userId = userId
       IN req' = [q \in DOMAIN req |->
                    IF q = p
                    THEN [op |-> "changePassword", cookie |-> cookie, userId |-> userId,
                          oldPassword |-> oldPassword, newPassword |-> newPassword,
                          user |-> SelectUserById(userId),
                          peer |-> \E o \in DOMAIN req : same(o),
                          stale |-> FALSE]
                    ELSE IF same(q) THEN [req[q] EXCEPT !.peer = TRUE]
                    ELSE req[q]]
    /\ sent' = NoResponse
    /\ UNCHANGED <<usersCols, users, lastID, sessions, now, nextTok, issued, revoked, failed, plain>>
    /\ UNCHANGED <<pricingVars, clientVars>>

\* change-password: credential check, db.run(UPDATE password), response
ChangePasswordUpdate(p) ==
    /\ req[p].op = "changePassword"
    /\ LET res == ChangePasswordResult(req[p])
       IN /\ users' = res.users
          /\ sessions' = res.sessions
          /\ sent' = res.resp
          /\ req' = [q \in DOMAIN req |->
                       IF q = p THEN Idle
                       ELSE IF /\ req[q].op = "changePassword"
                               /\ req[q].user \cap res.users = {}
                            THEN [req[q] EXCEPT !.stale = TRUE]
                            ELSE req[q]]
          /\ plain' = IF res.resp.status = 204
                      THEN {IF c.id = req[p].userId
                            THEN [c EXCEPT !.password = req[p].newPassword] ELSE c : c \in plain}
                      ELSE plain
    /\ UNCHANGED <<usersCols, lastID, now, nextTok, issued, revoked, failed>>
    /\ UNCHANGED <<pricingVars, clientVars>>

\* signup: one INSERT
Signup(email, password, admin_id) ==
    /\ LET res == SignupResult(email, password, admin_id)
       IN /\ res.resp.status = 200 => lastID < MaxUsers
          /\ users' = res.users
          /\ lastID' = res.lastID
          /\ sent' = res.resp
          /\ plain' = IF res.resp.status = 200
                      THEN plain \cup {[id |-> res.lastID, password |-> password]}
                      ELSE plain
    /\ UNCHANGED <<usersCols, sessions, now, nextTok, req, issued, revoked, failed>>
    /\ UNCHANGED <<pricingVars, clientVars>>

\* assistant deletion: one DELETE
DeleteAssistant(id) ==
    /\ LET res == DeleteAssistantResult(id)
       IN /\ users' = res.users
          /\ sent' = res.resp
          /\ plain' = {c \in plain : \E u \in res.users : u.id = c.id}
    /\ UNCHANGED <<usersCols, lastID, sessions, now, nextTok, req, issued, revoked, failed>>
    /\ UNCHANGED <<pricingVars, clientVars>>

\* the clock advances
Tick ==
    /\ now < MaxTime
    /\ now' = now + 1
    /\ sent' = NoResponse
    /\ UNCHANGED <<usersCols, users, lastID, sessions, nextTok, req, issued, revoked, failed, plain>>
    /\ UNCHANGED <<pricingVars, clientVars>>

Next ==
    \/ \E p \in DOMAIN req, e \in Emails, pw \in Passwords : LoginGet(p, e, pw)
    \/ \E p \in DOMAIN req : LoginInsert(p)
    \/ \E p \in DOMAIN req, c \in CookieHeaders : MeGetSession(p, c)
    \/ \E p \in DOMAIN req : MeGetUser(p)
    \/ \E p \in DOMAIN req, c \in CookieHeaders : LogoutStart(p, c)
    \/ \E p \in DOMAIN req : LogoutDelete(p)
    \/ \E p \in DOMAIN req, id \in 1..MaxUsers, o \in Passwords, n \in Passwords :
          ChangePasswordGet(p, <<>>, id, o, n)
    \/ \E p \in DOMAIN req : ChangePasswordUpdate(p)
    \/ \E e \in Emails, pw \in Passwords, a \in AdminIds : Signup(e, pw, a)
    \/ \E id \in 1..MaxUsers : DeleteAssistant(id)
    \/ Tick

Spec == Init /\ [][Next]_vars

\* change-password requests also arrive with a session cookie
NextCookies ==
    \/ Next
    \/ \E p \in DOMAIN req, c \in SessionCookies, id \in 1..MaxUsers,
          o \in Passwords, n \in Passwords :
          ChangePasswordGet(p, c, id, o, n)

SpecCookies == Init /\ [][NextCookies]_vars

\* ------------------------------------------------- interleaved handlers
\* MaxConcurrent requests are in flight at once: a handler suspended at a
\* storage await lets the steps of another run in between.
InitConc ==
    /\ usersCols = BaseCols
    /\ users = {SeedBase}
    /\ plain = {[id |-> 1, password |-> "secret"]}
    /\ lastID = 1
    /\ sessions = {}
    /\ now = 0
    /\ nextTok = 0
    /\ req = [p \in 1..MaxConcurrent |-> Idle]
    /\ sent = NoResponse
    /\ issued = {}
    /\ revoked = {}
    /\ failed = {}
    /\ PricingInit /\ ClientInit("/")

NextConc ==
    \/ \E p \in DOMAIN req, e \in Emails, pw \in Passwords : LoginGet(p, e, pw)
    \/ \E p \in DOMAIN req : LoginInsert(p)
    \/ \E p \in DOMAIN req, c \in CookieHeaders : MeGetSession(p, c)
    \/ \E p \in DOMAIN req : MeGetUser(p)
    \/ \E p \in DOMAIN req, c \in CookieHeaders : LogoutStart(p, c)
    \/ \E p \in DOMAIN req : LogoutDelete(p)
    \/ Tick

SpecConc == InitConc /\ [][NextConc]_vars

\* two requests in flight over a users table with an admin and an assistant
SeedAssistant ==
    [id |-> 2, email |-> "b@x.com", password |-> hashPassword("secret"),
     role |-> "assistant", admin_id |-> 1]

InitConcUsers ==
    /\ usersCols = RoleCols
    /\ users = {SeedAdmin, SeedAssistant}
    /\ plain = {[id |-> u.id, password |-> "secret"] : u \in users}
    /\ lastID = 2
    /\ sessions = {}
    /\ now = 0
    /\ nextTok = 0
    /\ req = [p \in 1..MaxConcurrent |-> Idle]
    /\ sent = NoResponse
    /\ issued = {}
    /\ revoked = {}
    /\ failed = {}
    /\ PricingInit /\ ClientInit("/")

NextConcUsers ==
    \/ \E p \in DOMAIN req, e \in Emails, pw \in Passwords : LoginGet(p, e, pw)
    \/ \E p \in DOMAIN req : LoginInsert(p)
    \/ \E p \in DOMAIN req, c \in CookieHeaders : MeGetSession(p, c)
    \/ \E p \in DOMAIN req : MeGetUser(p)
    \/ \E p \in DOMAIN req, id \in 1..MaxUsers, o \in Passwords, n \in Passwords :
          ChangePasswordGet(p, <<>>, id, o, n)
    \/ \E p \in DOMAIN req : ChangePasswordUpdate(p)
    \/ \E id \in 1..MaxUsers : DeleteAssistant(id)

SpecConcUsers == InitConcUsers /\ [][NextConcUsers]_vars

\* ------------------------------------------------------ pricing settings
\* A JSON text is modelled by its parse tree.  A value is a record (t, n):
\* a number literal with the digits n, the literal 1e999 ("huge": beyond the
\* range of a double), the string "n" or null.  JavaScript numbers are
\* doubles; the model keeps MantissaBits bits of mantissa where a double
\* keeps 53, so that the integers below 2^MantissaBits are exact.
JsonNumber(n) == [t |-> "number", n |-> n]
JsonHuge == [t |-> "huge", n |-> 0]
JsonString(n) == [t |-> "string", n |-> n]
JsonNull == [t |-> "null", n |-> 0]
JsInfinity == [t |-> "Infinity", n |-> 0]
JsFunction == [t |-> "function", n |-> 0]
JsUndefined == [t |-> "undefined", n |-> 0]

\* the double nearest to the integer x (ties to the even mantissa)
RoundToDouble(x) ==
    LET e == CHOOSE d \in 0..16 : /\ x < 2 ^ (MantissaBits + d)
                                  /\ d > 0 => x >= 2 ^ (MantissaBits + d - 1)
        ulp == 2 ^ e
        low == (x \div ulp) * ulp
    IN IF 2 * (x - low) < ulp THEN low
       ELSE IF 2 * (x - low) > ulp THEN low + ulp
       ELSE IF (x \div ulp) % 2 = 0 THEN low ELSE low + ulp

\* keys of the pricing object: camelCase words
Word(stem, case) == [stem |-> stem, case |-> case]
MonthlyFitnessKey == <<Word("monthly", "lower"), Word("fitness", "Title")>>
DailyIronKey == <<Word("daily", "lower"), Word("iron", "Title")>>
PricingKeys == {MonthlyFitnessKey, DailyIronKey}

\* request bodies of POST /api/settings: JSON objects over PricingKeys, or
\* a body that is not JSON
PriceLiterals == {1, 2, 7, 9}
BodyValues ==
    {JsonNumber(n) : n \in PriceLiterals} \cup {JsonHuge, JsonString(5), JsonNull}
JsonObjects(V) == UNION {[K -> V] : K \in SUBSET PricingKeys}
Malformed == [malformed |-> TRUE]
EmptyObject == <<>>

\* JSON.parse / request.json() on one value, and on an object
JsonParseValue(v) ==
    CASE v.t = "number" -> JsonNumber(RoundToDouble(v.n))
      [] v.t = "huge" -> JsInfinity
      [] OTHER -> v
JsonParse(o) == [k \in DOMAIN o |-> JsonParseValue(o[k])]

\* JSON.stringify on one value, and on an object
JsonStringifyValue(v) ==
    CASE v.t = "Infinity" -> JsonNull
      [] OTHER -> v
JsonStringify(o) == [k \in DOMAIN o |-> JsonStringifyValue(o[k])]

\* SELECT value FROM settings WHERE key = 'pricing'
SelectPricing == {r \in settings : r.key = "pricing"}

\* mutant: the posted keys are merged into the stored object
SettingsPostResult_Merge(body) ==
    IF body = Malformed
    THEN [settings |-> settings, resp |-> InternalServerError("settingsPost", [body |-> body])]
    ELSE LET data == JsonStringify(JsonParse(body))
             old == IF SelectPricing = {} THEN EmptyObject
                    ELSE (CHOOSE r \in SelectPricing : TRUE).value
             merged == [k \in DOMAIN old \cup DOMAIN data |->
                          IF k \in DOMAIN data THEN data[k] ELSE old[k]]
         IN [settings |-> {r \in settings : r.key # "pricing"} \cup
                          {[key |-> "pricing", value |-> merged]},
             resp |-> Response("settingsPost", 204, NoBody, NoCookie, [body |-> body])]

\* POST /api/settings: request.json(), INSERT OR REPLACE, 204; catch: 500
SettingsPostResult(body) ==
    IF body = Malformed
    THEN [settings |-> settings, resp |-> InternalServerError("settingsPost", [body |-> body])]
    ELSE LET data == JsonParse(body)
         IN [settings |-> {r \in settings : r.key # "pricing"} \cup
                          {[key |-> "pricing", value |-> JsonStringify(data)]},
             resp |-> Response("settingsPost", 204, NoBody, NoCookie, [body |-> body])]

\* GET /api/settings: {} without a row, else JSON.parse(result.value)
SettingsGetResult ==
    IF SelectPricing = {}
    THEN Response("settingsGet", 200, Json(JsonStringify(EmptyObject)), NoCookie, <<>>)
    ELSE LET result == CHOOSE r \in SelectPricing : TRUE
         IN Response("settingsGet", 200, Json(JsonStringify(JsonParse(result.value))),
                     NoCookie, <<>>)

SettingsPost(body) ==
    /\ LET res == SettingsPostResult(body)
       IN /\ settings' = res.settings
          /\ sent' = res.resp
          /\ posted' = IF res.resp.status = 204
                       THEN [posted |-> TRUE, body |-> body,
                             replaced |-> \E r \in SelectPricing : r \notin res.settings]
                       ELSE posted
    /\ UNCHANGED <<usersCols, users, lastID, sessions, now, nextTok, req, issued, revoked,
                   failed, plain, members, clientVars>>

SettingsGet ==
    /\ sent' = SettingsGetResult
    /\ UNCHANGED <<usersCols, users, lastID, sessions, now, nextTok, req, issued, revoked,
                   failed, plain, pricingVars, clientVars>>

NextSettings ==
    \/ \E body \in JsonObjects(BodyValues) \cup {Malformed} : SettingsPost(body)
    \/ SettingsGet

SpecSettings == Init /\ [][NextSettings]_vars

\* --------------------------------------------------------------- profits
\* JavaScript values that the profits arithmetic produces beside those of
\* JSON: a string built by +, given by its pieces, and the double nearest to
\* a quotient
JsConcat(pieces) == [t |-> "concat", n |-> pieces]
JsQuotient(a, b) == [t |-> "quotient", n |-> <<a, b>>]
JsNaN == [t |-> "NaN", n |-> 0]

\* a subscriptionType is NULL or a text: parts separated by ' & ', each part
\* words separated by ' '
NullType == [null |-> TRUE, parts |-> <<>>]
TextType(parts) == [null |-> FALSE, parts |-> parts]
MonthlyFitness == <<Word("monthly", "Title"), Word("fitness", "Title")>>
DailyIron == <<Word("daily", "Title"), Word("iron", "Title")>>
Constructor == <<Word("constructor", "Title")>>
SubscriptionTypes ==
    {TextType(<<MonthlyFitness>>), TextType(<<DailyIron>>),
     TextType(<<MonthlyFitness, DailyIron>>), TextType(<<Constructor>>), NullType}

\* a startDate is NULL or a date, given by its month
NoDate == 0
StartDates == {NoDate, 1, 2}

\* names that every object inherits from Object.prototype
ObjectPrototypeKeys == {<<Word("constructor", "lower")>>}

\* bodies of POST /api/settings used with the profits
ProfitBodies ==
    {MonthlyFitnessKey :> JsonNumber(2),
     (MonthlyFitnessKey :> JsonNumber(5)) @@ (DailyIronKey :> JsonNumber(2)),
     MonthlyFitnessKey :> JsonString(5)}

\* parts[0].toLowerCase() + parts.slice(1).map(charAt(0).toUpperCase() + slice(1)).join('')
formatSubscriptionTypeToKey(type) ==
    [i \in DOMAIN type |-> Word(type[i].stem, IF i = 1 THEN "lower" ELSE "Title")]

\* pricing[priceKey]: an own property, an inherited one, or undefined
Lookup(pricing, priceKey) ==
    IF priceKey \in DOMAIN pricing THEN pricing[priceKey]
    ELSE IF priceKey \in ObjectPrototypeKeys THEN JsFunction
    ELSE JsUndefined

\* v || 0
Truthy(v) ==
    CASE v.t = "number" -> v.n # 0
      [] v.t \in {"null", "undefined", "NaN"} -> FALSE
      [] OTHER -> TRUE
OrZero(v) == IF Truthy(v) THEN v ELSE JsonNumber(0)

\* a + b: the sum of two numbers rounded to a double, else the concatenation
\* of the two operands as strings
ToPieces(v) == IF v.t = "concat" THEN v.n ELSE <<v>>
Plus(a, b) ==
    IF a.t = "number" /\ b.t = "number" THEN JsonNumber(RoundToDouble(a.n + b.n))
    ELSE JsConcat(ToPieces(a) \o ToPieces(b))

\* mutant: only the first part of the subscriptionType is priced
MemberPrice_FirstPart(pricing, subscriptionTypes) ==
    IF subscriptionTypes = <<>> THEN JsonNumber(0)
    ELSE Plus(JsonNumber(0),
              OrZero(Lookup(pricing, formatSubscriptionTypeToKey(subscriptionTypes[1]))))

\* let memberPrice = 0; subscriptionTypes.forEach(memberPrice += pricing[key] || 0)
RECURSIVE MemberPrice(_, _)
MemberPrice(pricing, subscriptionTypes) ==
    IF subscriptionTypes = <<>> THEN JsonNumber(0)
    ELSE LET n == Len(subscriptionTypes)
         IN Plus(MemberPrice(pricing, SubSeq(subscriptionTypes, 1, n - 1)),
                 OrZero(Lookup(pricing, formatSubscriptionTypeToKey(subscriptionTypes[n]))))

\* let totalRevenue = 0; membersList.forEach(totalRevenue += memberPrice)
RECURSIVE TotalRevenue(_, _)
TotalRevenue(pricing, membersList) ==
    IF membersList = <<>> THEN JsonNumber(0)
    ELSE LET n == Len(membersList)
         IN Plus(TotalRevenue(pricing, SubSeq(membersList, 1, n - 1)),
                 MemberPrice(pricing, membersList[n].subscriptionType.parts))

\* monthlyRevenueData[monthKey] after the loop: 0 when first met, then
\* += memberPrice for each member of the month, in row order
MonthlyRevenueData(pricing, membersList, monthKey) ==
    TotalRevenue(pricing, SelectSeq(membersList, LAMBDA m : m.startDate = monthKey))

\* Object.entries(monthlyRevenueData).sort(by key).map({ name, total })
RECURSIVE SortedMonthlyData(_, _, _)
SortedMonthlyData(pricing, membersList, monthKeys) ==
    IF monthKeys = {} THEN <<>>
    ELSE LET first == CHOOSE k \in monthKeys : \A j \in monthKeys : k <= j
         IN <<[name |-> first, total |-> MonthlyRevenueData(pricing, membersList, first)]>>
            \o SortedMonthlyData(pricing, membersList, monthKeys \ {first})

\* totalMembers > 0 ? totalRevenue / totalMembers : 0
AverageRevenuePerMember(totalRevenue, totalMembers) ==
    IF totalMembers = 0 THEN JsonNumber(0)
    ELSE IF totalRevenue.t = "number" THEN JsQuotient(totalRevenue.n, totalMembers)
    ELSE JsNaN

\* the statistics, or 500 when member.subscriptionType.split throws on NULL
ProfitsResult(r, membersList) ==
    LET echo == [pricing |-> r.pricing, membersList |-> membersList]
    IN IF \E i \in DOMAIN membersList : membersList[i].subscriptionType = NullType
       THEN InternalServerError("profits", echo)
       ELSE LET totalRevenue == TotalRevenue(r.pricing, membersList)
                monthKeys == {membersList[i].startDate : i \in DOMAIN membersList} \ {NoDate}
            IN Response("profits", 200,
                        Json([totalRevenue |-> totalRevenue,
                              totalMembers |-> Len(membersList),
                              averageRevenuePerMember |->
                                  AverageRevenuePerMember(totalRevenue, Len(membersList)),
                              monthlyRevenue |->
                                  SortedMonthlyData(r.pricing, membersList, monthKeys)]),
                        NoCookie, echo)

\* profits: openDb(), db.get(pricing), JSON.parse
ProfitsGetPricing(p) ==
    /\ CanStart(p)
    /\ req' = [req EXCEPT ![p] =
                  [op |-> "profits",
                   pricing |-> IF SelectPricing = {} THEN EmptyObject
                               ELSE JsonParse((CHOOSE r \in SelectPricing : TRUE).value)]]
    /\ sent' = NoResponse
    /\ UNCHANGED <<usersCols, users, lastID, sessions, now, nextTok, issued, revoked, failed,
                   plain, pricingVars, clientVars>>

\* profits: db.all(members), the sums, response
ProfitsGetMembers(p) ==
    /\ req[p].op = "profits"
    /\ Finish(p, ProfitsResult(req[p], members))
    /\ UNCHANGED <<usersCols, users, lastID, sessions, now, nextTok, issued, revoked, failed,
                   plain, pricingVars, clientVars>>

\* POST /api/members of a named member: INSERT, { id: lastID }
MembersPost(subscriptionType, startDate) ==
    /\ Len(members) < MaxMembers
    /\ members' = Append(members, [subscriptionType |-> subscriptionType,
                                   startDate |-> startDate])
    /\ sent' = Response("membersPost", 200, Json([id |-> Len(members) + 1]), NoCookie,
                        [subscriptionType |-> subscriptionType, startDate |-> startDate])
    /\ UNCHANGED <<usersCols, users, lastID, sessions, now, nextTok, req, issued, revoked,
                   failed, plain, settings, posted, clientVars>>

NextProfits ==
    \/ \E body \in ProfitBodies : SettingsPost(body)
    \/ \E t \in SubscriptionTypes, d \in StartDates : MembersPost(t, d)
    \/ \E p \in DOMAIN req : ProfitsGetPricing(p)
    \/ \E p \in DOMAIN req : ProfitsGetMembers(p)

SpecProfits == Init /\ [][NextProfits]_vars

\* ---------------------------------------------------------- AuthProvider
\* The provider's state changes at commits.  The state setters called in
\* one continuation of an async function are committed together, with one
\* render; the effects that commit schedules run before the next commit.
Paths == {"/", "/dashboard"}
ClientUsers == {UserData(1), UserData(2)}

\* what a fetch of the provider settles with: a response that is ok and
\* carries a user, a response that is not ok, or a rejection
FetchOutcomes == {[ok |-> TRUE, rejected |-> FALSE, json |-> u] : u \in ClientUsers}
                 \cup {[ok |-> FALSE, rejected |-> FALSE, json |-> NoUser],
                       [ok |-> FALSE, rejected |-> TRUE, json |-> NoUser]}

\* the effects a commit schedules: the redirect effect when one of its
\* dependencies isAuthenticated, loading, pathname has changed
Scheduled(state, path) ==
    IF \/ state.isAuthenticated # provider.isAuthenticated
       \/ state.loading # provider.loading
       \/ path # pathname
    THEN {"redirect"} ELSE {}

\* mutant: the redirect effect does not wait for the first fetch
RedirectEffect_NotLoadingDropped(state, path) == ~state.isAuthenticated /\ path # "/"

\* if (!loading && !isAuthenticated && pathname !== '/')
RedirectEffect(state, path) == ~state.loading /\ ~state.isAuthenticated /\ path # "/"

\* fetchUser: setUser, setIsAuthenticated(true) if res.ok; finally setLoading(false)
FetchUserCommit(state, res) ==
    IF res.ok
    THEN [user |-> res.json, loading |-> FALSE, isAuthenticated |-> TRUE]
    ELSE [state EXCEPT !.loading = FALSE]

\* mutant: signIn stores the user and leaves isAuthenticated
SignInCommit_UserOnly(state, res) ==
    IF res.ok THEN [state EXCEPT !.user = res.json] ELSE state

\* signIn: setUser, setIsAuthenticated(true) if res.ok; nothing otherwise
SignInCommit(state, res) ==
    IF res.ok THEN [state EXCEPT !.user = res.json, !.isAuthenticated = TRUE] ELSE state

\* signOut: setUser(null), setIsAuthenticated(false) unless the fetch rejected
SignOutCommit(state, res) ==
    IF res.rejected THEN state ELSE [state EXCEPT !.user = NoUser, !.isAuthenticated = FALSE]

ServerUnchanged ==
    UNCHANGED <<usersCols, users, lastID, sessions, now, nextTok, req, sent, issued, revoked,
                failed, plain, pricingVars>>

\* the effects of the last commit run: fetchUser() starts its fetch, the
\* redirect effect sees the state of that commit
FlushEffects ==
    /\ effectDue # {}
    /\ effectDue' = {}
    /\ calls' = calls \cup (effectDue \cap {"fetchUser"})
    /\ pushed' = IF "redirect" \in effectDue /\ RedirectEffect(provider, pathname)
                 THEN "redirect" ELSE pushed
    /\ UNCHANGED <<provider, pathname>>
    /\ ServerUnchanged

Commit(state) ==
    /\ provider' = state
    /\ effectDue' = Scheduled(state, pathname)

\* fetch('/api/auth/me') settles
FetchUserSettle(res) ==
    /\ effectDue = {}
    /\ "fetchUser" \in calls
    /\ calls' = calls \ {"fetchUser"}
    /\ Commit(FetchUserCommit(provider, res))
    /\ UNCHANGED <<pathname, pushed>>
    /\ ServerUnchanged

\* a child calls signIn(email, password): fetch('/api/auth/login')
SignInCall ==
    /\ effectDue = {}
    /\ "signIn" \notin calls
    /\ calls' = calls \cup {"signIn"}
    /\ UNCHANGED <<provider, pathname, effectDue, pushed>>
    /\ ServerUnchanged

SignInSettle(res) ==
    /\ effectDue = {}
    /\ "signIn" \in calls
    /\ calls' = calls \ {"signIn"}
    /\ Commit(SignInCommit(provider, res))
    /\ UNCHANGED <<pathname, pushed>>
    /\ ServerUnchanged

\* a child calls signOut(): fetch('/api/auth/logout')
SignOutCall ==
    /\ effectDue = {}
    /\ "signOut" \notin calls
    /\ calls' = calls \cup {"signOut"}
    /\ UNCHANGED <<provider, pathname, effectDue, pushed>>
    /\ ServerUnchanged

\* the logout fetch settles; after the setters router.push('/')
SignOutSettle(res) ==
    /\ effectDue = {}
    /\ "signOut" \in calls
    /\ calls' = calls \ {"signOut"}
    /\ Commit(SignOutCommit(provider, res))
    /\ pushed' = IF res.rejected THEN pushed ELSE "signOut"
    /\ UNCHANGED pathname
    /\ ServerUnchanged

\* the navigation started by router.push('/') completes: usePathname()
\* returns '/', the provider renders again
PushCompletes ==
    /\ effectDue = {}
    /\ pushed # "none"
    /\ pushed' = "none"
    /\ pathname' = "/"
    /\ effectDue' = Scheduled(provider, "/")
    /\ UNCHANGED <<provider, calls>>
    /\ ServerUnchanged

\* the user follows a link to another page
LinkNavigate(path) ==
    /\ effectDue = {}
    /\ pushed = "none"
    /\ path # pathname
    /\ pathname' = path
    /\ effectDue' = Scheduled(provider, path)
    /\ UNCHANGED <<provider, calls, pushed>>
    /\ ServerUnchanged

InitClient ==
    /\ \/ usersCols = BaseCols /\ users = {SeedBase}
       \/ usersCols = RoleCols /\ users = {SeedAdmin}
    /\ lastID = Cardinality(users)
    /\ plain = {[id |-> u.id, password |-> "secret"] : u \in users}
    /\ sessions = {}
    /\ now = 0
    /\ nextTok = 0
    /\ req = [p \in Procs |-> Idle]
    /\ sent = NoResponse
    /\ issued = {}
    /\ revoked = {}
    /\ failed = {}
    /\ PricingInit
    /\ \E path \in Paths : ClientInit(path)

NextClient ==
    \/ FlushEffects
    \/ \E res \in FetchOutcomes : FetchUserSettle(res)
    \/ SignInCall
    \/ \E res \in FetchOutcomes : SignInSettle(res)
    \/ SignOutCall
    \/ \E res \in FetchOutcomes : SignOutSettle(res)
    \/ PushCompletes
    \/ \E path \in Paths : LinkNavigate(path)

\* React runs the scheduled effects; the first fetch settles, and its
\* continuation runs once no effect is left to run
SpecClient ==
    /\ InitClient /\ [][NextClient]_vars
    /\ WF_vars(FlushEffects)
    /\ SF_vars(\E res \in FetchOutcomes : FetchUserSettle(res))

\* ------------------------------------------------- handlers with faults
\* openDb() or the handler's first storage call rejects (for me and logout
\* the request carried a token, or storage would not have been reached)
FirstCallFault(p, op) ==
    /\ CanStart(p)
    /\ sent' = FaultResult([op |-> op, call |-> 1], now, nextTok + 1).resp
    /\ UNCHANGED <<usersCols, users, lastID, sessions, now, nextTok, req, issued, revoked, failed,
                   plain>>
    /\ UNCHANGED <<pricingVars, clientVars>>

\* the handler's second storage call rejects
SecondCallFault(p) ==
    /\ req[p].op \in StorageOps
    /\ ReachesSecondCall(req[p], now)
    /\ LET res == FaultResult(req[p], now, nextTok + 1)
       IN /\ users' = res.users
          /\ sessions' = res.sessions
          /\ Finish(p, res.resp)
    /\ UNCHANGED <<usersCols, lastID, now, nextTok, issued, revoked, failed, plain>>
    /\ UNCHANGED <<pricingVars, clientVars>>

NextFault ==
    \/ Next
    \/ \E p \in DOMAIN req, op \in StorageOps : FirstCallFault(p, op)
    \/ \E p \in DOMAIN req : SecondCallFault(p)

SpecFault == Init /\ [][NextFault]_vars

\* ================================================================= claims
Unauthorized401 == [status |-> 401, body |-> Text("Unauthorized"), cookie |-> NoCookie]
InvalidCredentials401 ==
    [status |-> 401, body |-> Text("Invalid credentials"), cookie |-> NoCookie]

\* the latest step was the second step of me (MeGetUser): it has answered a
\* request that carried a token, and has left the tables, the clock and the
\* history as it found them
MeAnswered == sent.op = "me" /\ sent.echo.token # 0

C2_RevokedStaysRevoked ==
    [][/\ \A p \in DOMAIN req :
             (MeGetUser(p) /\ req[p].revokedAtStart) => Visible(sent') = Unauthorized401
       /\ \A p \in DOMAIN req :
             (LogoutDelete(p) /\ req[p].revokedAtStart)
             => /\ Visible(sent') =
                      [status |-> 200, body |-> Text("Logged out"), cookie |-> SetCookie(0, 0)]
                /\ sessions' = sessions]_vars

\* a second logout with a token already logged out has been answered
C2_Witness ==
    /\ sent.op = "logout" /\ sent.status = 200
    /\ sent.echo.token \in 1..nextTok
    /\ sent.echo.revokedAtStart

\* C2: resolveSession of a logged-out token has been answered 401
C2_WitnessResolve ==
    /\ sent.op = "me" /\ sent.status = 401
    /\ sent.echo.token # 0 /\ sent.echo.revokedAtStart

\* C3 as stated: resolveSession of a token whose stored row has expiresAt at
\* or before the current time is answered 401, also when the current time
\* equals expiresAt.
C3_ExpiredAtOrBeforeNow ==
    [][\A p \in DOMAIN req : MeGetUser(p) =>
          ((\E s \in req[p].session : s.expiresAt <= now) => sent'.status = 401)]_vars

LoginWouldFail(U, email, password) ==
    CredentialsRejected({u \in U : u.email = email}, password)

\* C5: a login with a registered email and a wrong password and a login with
\* an email that matches no credential get the same response (401 "Invalid
\* credentials", no cookie) and leave the same store: the one they found.
C5_UnknownEmailLikeWrongPassword ==
    [][\A p \in DOMAIN req : LoginInsert(p) =>
          ((\/ req[p].user = {}
            \/ req[p].user # {} /\ req[p].cred = {})
           => /\ Visible(sent') = InvalidCredentials401
              /\ store' = store)]_vars

\* a login with an unregistered email has been answered
C5_Witness ==
    /\ sent.op = "login" /\ sent.status = 401
    /\ sent.echo.user = {}
    /\ users # {}

\* C6: a login with the exact email of a credential in the store and the
\* password last set for it (at signup or by a change-password) is answered
\* 200 and inserts a session row for that credential under the token of the
\* cookie.
C6_CorrectPasswordLogsIn ==
    (sent.op = "login" /\ sent.echo.cred # {})
    => /\ sent.status = 200
       /\ \E s \in sessions : s.userId \in sent.echo.cred /\ s.id = sent.cookie.value

\* a login with a password set by change-password has succeeded
C6_Witness ==
    /\ sent.op = "login" /\ sent.status = 200
    /\ sent.echo.email = "a@x.com" /\ sent.echo.password = "hunter2"
    /\ \E s \in sessions : s.id = sent.cookie.value /\ s.userId = 1

\* change-password runs on the row as stored: the row it read is still in the
\* table and old is the password last set for it
OldMatchesStored(r) ==
    /\ r.user # {} /\ r.user \subseteq users
    /\ [id |-> r.userId, password |-> r.oldPassword] \in plain

\* C7 as stated: when old matches the stored hash, afterwards login with old
\* fails and login with new succeeds, for every pair (old, new) including
\* new = old; when old does not match or the id is unknown, the response is
\* 401 and every stored hash is unchanged.
C7_OldFailsNewSucceedsAllPairs ==
    [][\A p \in DOMAIN req : ChangePasswordUpdate(p) =>
          LET r == req[p] IN
          /\ OldMatchesStored(r) =>
                \A u \in r.user :
                    /\ LoginWouldFail(users', u.email, r.oldPassword)
                    /\ ~LoginWouldFail(users', u.email, r.newPassword)
          /\ (r.user = {} \/ \A u \in r.user : u.password # hashPassword(r.oldPassword))
                => sent'.status = 401 /\ users' = users]_vars

\* C7 (amended): when old matches the stored hash, afterwards login with new
\* succeeds, and login with old fails for every pair with new # old (with
\* new = old the hash is the same and login with old still succeeds); when
\* old does not match or the id is unknown, the response is 401 and every
\* stored hash is unchanged.
C7_OldFailsNewSucceeds ==
    [][\A p \in DOMAIN req : ChangePasswordUpdate(p) =>
          LET r == req[p] IN
          /\ OldMatchesStored(r) =>
                \A u \in r.user :
                    /\ sent'.status = 204
                    /\ r.newPassword # r.oldPassword
                          => LoginWouldFail(users', u.email, r.oldPassword)
                    /\ ~LoginWouldFail(users', u.email, r.newPassword)
          /\ (r.user = {} \/ \A u \in r.user : u.password # hashPassword(r.oldPassword))
                => sent'.status = 401 /\ users' = users]_vars

\* a password has been changed to a different one
C7_Witness ==
    /\ sent.op = "changePassword" /\ sent.status = 204
    /\ sent.echo.newPassword # sent.echo.oldPassword
    /\ \E u \in users : /\ u.id = sent.echo.userId
                        /\ u.password = hashPassword(sent.echo.newPassword)

\* resolveSession on the stored tables at the current time: the credential
\* id a token resolves to ({} when it is answered 401)
Resolves(k) ==
    {s.userId : s \in {x \in sessions : /\ x.id = k
                                        /\ ~SessionRejected({x}, now)
                                        /\ \E u \in users : u.id = x.userId}}

\* C8: a successful change-password leaves the sessions table unchanged, and
\* every token resolves after it to the credential id it resolved to before.
C8_ChangePasswordKeepsSessions ==
    [][\A p \in DOMAIN req :
          (ChangePasswordUpdate(p) /\ sent'.status = 204)
          => /\ sessions' = sessions
             /\ \A k \in 1..MaxTokens : Resolves(k)' = Resolves(k)]_vars

\* the password of a credential with a live session has been changed
C8_Witness ==
    /\ sent.op = "changePassword" /\ sent.status = 204
    /\ \E k \in 1..MaxTokens : Resolves(k) = {sent.echo.userId}

\* C9: a login answered 401 leaves the users and sessions tables as they
\* were and sets no cookie.
C9_FailedLoginNoSideEffect ==
    [][\A p \in DOMAIN req :
          (LoginInsert(p) /\ sent'.status = 401)
          => /\ users' = users /\ lastID' = lastID
             /\ sessions' = sessions
             /\ ~sent'.cookie.set]_vars

\* a login with a registered email and a wrong password has been answered
C9_Witness ==
    /\ sent.op = "login" /\ sent.status = 401
    /\ sent.echo.user # {}
    /\ sessions # {}

\* the row a 200 response of login or me was built from
RowReturned ==
    IF sent.op = "login" THEN sent.echo.user
    ELSE {u \in users : u.id = sent.body.json.id}

\* C10: the user object of every 200 response of login and of me has all the
\* columns of the user row with their values, except password.
C10_NoPasswordInResponse ==
    (sent.op \in {"login", "me"} /\ sent.status = 200)
    => /\ sent.body.kind = "json"
       /\ "password" \notin DOMAIN sent.body.json
       /\ DOMAIN sent.body.json = usersCols \ {"password"}
       /\ \E u \in RowReturned : \A c \in DOMAIN sent.body.json : sent.body.json[c] = u[c]

\* me has returned a user with the role columns
C10_Witness ==
    /\ sent.op = "me" /\ sent.status = 200
    /\ usersCols = RoleCols
    /\ sent.body.json.role = "assistant"

\* C11: in every reachable state the password column of every credential is
\* hashPassword(p) of the plaintext p last supplied for it at signup or at a
\* successful change-password; a plaintext is never stored.
C11_StoredPasswordIsHashOfLast ==
    \A u \in users :
        /\ \E c \in plain : c.id = u.id /\ u.password = hashPassword(c.password)
        /\ \A p \in Passwords : u.password # <<"plain", p>>

\* two credentials are stored, one with a password set by change-password
C11_Witness ==
    /\ Cardinality(users) = 2
    /\ \E u \in users : u.password = hashPassword("hunter2")
    /\ sent.op = "changePassword" /\ sent.status = 204

\* C12 as stated: every row of the sessions table references a credential
\* that is in the users table.
C12_SessionsReferenceUsers ==
    \A s \in sessions : \E u \in users : u.id = s.userId

UniqueEmails == \A u, v \in users : u.email = v.email => u = v

\* C13: no two credentials ever have the same email; a signup with an email
\* already registered is answered 500 and leaves the users table unchanged.
C13_EmailUnique ==
    /\ []UniqueEmails
    /\ [][\A e \in Emails, pw \in Passwords, a \in AdminIds :
             (Signup(e, pw, a) /\ \E u \in users : u.email = e)
             => (sent'.status = 500 /\ users' = users /\ lastID' = lastID)]_vars

\* a signup with a registered email has been refused where signup can succeed
C13_Witness ==
    /\ sent.op = "signup" /\ sent.status = 500
    /\ usersCols = RoleCols
    /\ \E u \in users : u.email = sent.echo.email
    /\ Cardinality(users) = 2

\* C14: the session a login created is stored and unexpired when the login answers,
\* and once me has refused a generated token as expired or not stored, every me
\* request started afterwards with that token is refused too.
C14_NoWayBackToActive ==
    /\ (sent.op = "login" /\ sent.status = 200) =>
           \E s \in sessions : s.id = sent.cookie.value /\ ~SessionRejected({s}, now)
    /\ (MeAnswered /\ sent.echo.failedAtStart) => sent.status = 401

C14_Witness ==
    /\ MeAnswered /\ sent.echo.failedAtStart
    /\ sent.echo.token \notin revoked
    /\ \E s \in sessions : s.id # sent.echo.token /\ s.userId \in {x.userId : x \in sent.echo.session}
                            /\ ~SessionRejected({s}, now)

\* C15: no step of me (resolveSession) changes the users or sessions table,
\* whatever it answers, so a session row refused as expired is still stored
\* after the refusal.
C15_ResolveReadsOnly ==
    [][((\E p \in DOMAIN req, c \in CookieHeaders : MeGetSession(p, c))
          \/ (\E p \in DOMAIN req : MeGetUser(p)))
       => store' = store]_vars

C15_Witness ==
    /\ MeAnswered /\ sent.status = 401
    /\ sent.echo.session # {} /\ sent.echo.session \subseteq sessions
    /\ SessionRejected(sent.echo.session, now)
    /\ Cardinality(sessions) = 2

\* C16: a me request with no cookie header, with no session_token entry or
\* with an empty session_token value is answered 401 "Unauthorized" in its
\* first step: it never reaches the reads of the sessions and users tables
\* and leaves both tables as they were.
C16_NoTokenNoRead ==
    [][\A p \in DOMAIN req, c \in CookieHeaders :
          (MeGetSession(p, c) /\ \A i \in 1..Len(c) :
                                    c[i].name = "session_token" => c[i].value = 0)
          => /\ Visible(sent') = Unauthorized401
             /\ sent'.op = "me"
             /\ req' = req
             /\ store' = store]_vars

C16_Witness ==
    /\ sent.op = "me" /\ sent.status = 401 /\ sent.echo.token = 0
    /\ sessions # {}
    /\ \E s \in sessions : ~SessionRejected({s}, now)

C18_EveryLogoutClearsCookie ==
    sent.op = "logout" => sent.cookie = SetCookie(0, 0)

\* C18: a logout request that presents a token is answered 200 with the
\* session cookie cleared (empty value, expiry at epoch zero) whether or not
\* a stored row matched the token; a logout request that presents no token
\* is answered 401 "Unauthorized" and sets no cookie.
C18_LogoutWithTokenClearsCookie ==
    sent.op = "logout" =>
        IF sent.echo.token = 0
        THEN Visible(sent) = Unauthorized401
        ELSE sent.status = 200 /\ sent.cookie = SetCookie(0, 0)

C18_Witness ==
    /\ sent.op = "logout" /\ sent.status = 200
    /\ sent.echo.token = BogusToken
    /\ sent.cookie = SetCookie(0, 0)
    /\ sessions # {}

\* another logout request with the token of slot p is in flight
LogoutInFlightWith(p) ==
    \E q \in DOMAIN req : q # p /\ req[q].op = "logout" /\ req[q].token = req[p].token

\* C19: when two logout requests with the same token overlap (the second
\* started while the first was suspended before its DELETE), each of them,
\* in whichever order their DELETEs run, is answered 200, leaves no row with
\* that token in the sessions table and removes no other session row.
C19_ConcurrentLogoutsBothSafe ==
    [][\A p \in DOMAIN req :
          (LogoutDelete(p) /\ (req[p].peer \/ LogoutInFlightWith(p)))
          => /\ sent'.status = 200
             /\ \A s \in sessions' : s.id # req[p].token
             /\ \A s \in sessions : s.id # req[p].token => s \in sessions']_vars

\* both overlapping logouts of a stored token have completed, the second one
\* after the row was gone, and another session row is still stored
C19_Witness ==
    /\ sent.op = "logout" /\ sent.status = 200
    /\ sent.echo.token \in 1..nextTok
    /\ sent.echo.peer /\ ~sent.echo.revokedAtStart
    /\ sent.echo.token \in revoked
    /\ \A q \in DOMAIN req : req[q].op = "idle"
    /\ sessions # {}

InternalServerError500 ==
    [status |-> 500, body |-> Text("Internal Server Error"), cookie |-> NoCookie]

\* C20: when a storage call of login, me, logout or change-password faults,
\* the request ends at once with 500 "Internal Server Error", no cookie and
\* no user body, the handler slot is free again (nothing is run a second
\* time) and the users and sessions tables are as before the call; after a
\* faulted INSERT of login no session row carries the generated token.
C20_FaultIs500NoRetry ==
    [][/\ \A p \in DOMAIN req, op \in StorageOps :
             FirstCallFault(p, op)
             => /\ Visible(sent') = InternalServerError500 /\ sent'.op = op
                /\ req' = req /\ store' = store
       /\ \A p \in DOMAIN req :
             SecondCallFault(p)
             => /\ Visible(sent') = InternalServerError500 /\ sent'.op = req[p].op
                /\ req'[p] = Idle /\ store' = store
                /\ req[p].op = "login" => \A s \in sessions' : s.id # nextTok + 1]_vars

C20_Witness ==
    /\ sent.op = "login" /\ sent.status = 500
    /\ "user" \in DOMAIN sent.echo
    /\ ~CredentialsRejected(sent.echo.user, sent.echo.password)
    /\ sessions # {} /\ \A s \in sessions : s.id # nextTok + 1
    /\ sent.cookie = NoCookie /\ sent.body = Text("Internal Server Error")

\* C21 as stated: an assistant deletion, for every id, keeps every user row
\* whose role is admin and is answered 204 whether or not a row was deleted.
C21_DeleteKeepsAdmins204 ==
    [][\A id \in 1..MaxUsers :
          DeleteAssistant(id)
          => /\ sent'.status = 204
             /\ \A u \in users :
                   ("role" \in DOMAIN u /\ u.role = "admin") => u \in users']_vars

\* C22: in every step, a user row that is still stored afterwards is the
\* same row (same email, role and password hash), unless the step is a
\* change-password answered 204 for that row's id, and then only its hash
\* changed, to the hash of the new password; a row leaves the table only
\* by an assistant deletion for its id.
C22_CredentialChangedOnlyByChangePassword ==
    [][\A u \in users :
          /\ \A v \in users' :
                (v.id = u.id /\ v # u)
                => /\ sent'.op = "changePassword" /\ sent'.status = 204
                   /\ sent'.echo.userId = u.id
                   /\ v = [u EXCEPT !.password = hashPassword(sent'.echo.newPassword)]
          /\ (\A v \in users' : v.id # u.id)
                => sent'.op = "deleteAssistant" /\ sent'.echo.id = u.id]_vars

C22_Witness ==
    /\ sent.op = "changePassword" /\ sent.status = 204
    /\ sent.echo.newPassword # sent.echo.oldPassword
    /\ \E u \in users : /\ u.id # sent.echo.userId
                        /\ u.password # hashPassword(sent.echo.newPassword)
    /\ sessions # {}

\* C25: a me request answered 200 returns a row that is in the users table
\* when the handler looks the user up, and a me request whose session row
\* names a user that is not in the table at that moment is answered 401,
\* in every interleaving of logins, me requests and assistant deletions
\* (a login whose INSERT runs after its user was deleted included).
C25_ResolvesOnlyStoredUsers ==
    MeAnswered =>
        /\ sent.status = 200 => \E u \in users : WithoutPassword(u) = sent.body.json
        /\ (\A x \in sent.echo.session : SelectUserById(x.userId) = {}) => sent.status = 401

\* the token of a login that read the assistant before, and inserted the
\* session after, the assistant's deletion has been refused
C25_Witness ==
    /\ MeAnswered /\ sent.status = 401
    /\ sent.echo.session # {}
    /\ \E i \in issued : i.token = sent.echo.token /\ i.orphan

\* C27: when two change-password requests for one id have both read the
\* row before either wrote, and a request of the pair supplied the old
\* password of the row it read, its UPDATE is answered 204 and leaves the
\* stored hash of that id equal to the hash of its new password, also when
\* the other request has already changed the row: the UPDATE that runs
\* last decides the stored hash.
C27_LastUpdateWins ==
    [][\A p \in DOMAIN req :
          (/\ ChangePasswordUpdate(p)
           /\ req[p].peer
           /\ ~CredentialsRejected(req[p].user, req[p].oldPassword))
          => /\ sent'.status = 204
             /\ \A u \in users' :
                   u.id = req[p].userId => u.password = hashPassword(req[p].newPassword)
             /\ {u.id : u \in users'} = {u.id : u \in users}]_vars

\* the second UPDATE of an overlapping pair has run on a row the first had
\* already changed to another password, and has replaced it
C27_Witness ==
    /\ sent.op = "changePassword" /\ sent.status = 204
    /\ sent.echo.peer /\ sent.echo.stale
    /\ \A q \in DOMAIN req : req[q].op = "idle"
    /\ \E u \in users : /\ u.id = sent.echo.userId
                        /\ u.password = hashPassword(sent.echo.newPassword)
    /\ sent.echo.newPassword = sent.echo.oldPassword

\* C26: a user can have several session rows at once, and the DELETE of a
\* logout with token k leaves in the sessions table exactly the rows whose
\* id is not k: every other row, other sessions of the same user included,
\* is the same row afterwards and resolves as it did before.
C26_LogoutRemovesOnlyItsRow ==
    [][\A p \in DOMAIN req :
          LogoutDelete(p)
          => /\ sessions' = {s \in sessions : s.id # req[p].token}
             /\ users' = users
             /\ \A k \in 1..MaxTokens : k # req[p].token => Resolves(k)' = Resolves(k)]_vars

\* one of two unexpired sessions of a user has been logged out and the
\* other still resolves to that user
C26_Witness ==
    /\ sent.op = "logout" /\ sent.status = 200
    /\ sent.echo.token \in 1..nextTok /\ ~sent.echo.revokedAtStart
    /\ Cardinality(users) = 1
    /\ \E s \in sessions : Resolves(s.id) = {s.userId} /\ s.id # sent.echo.token

\* what change-password answers and stores, as a function of the request
\* body, the row read and the users table alone
ChangePasswordOutcome(U, row, userId, oldPassword, newPassword) ==
    IF row = {} \/ \E u \in row : u.password # hashPassword(oldPassword)
    THEN [visible |-> InvalidCredentials401, users |-> U]
    ELSE [visible |-> [status |-> 204, body |-> NoBody, cookie |-> NoCookie],
          users |-> {IF u.id = userId THEN [u EXCEPT !.password = hashPassword(newPassword)]
                     ELSE u : u \in U}]

\* C28: the response of change-password and the users table it leaves are
\* determined by (userId, oldPassword, newPassword) and the users table (as
\* read and as updated): they are the same whatever the sessions table
\* holds and whatever cookie the request presents (a session of that user,
\* a session of another user, an unknown token or none).
C28_OutcomeIgnoresSessions ==
    [][\A p \in DOMAIN req :
          ChangePasswordUpdate(p)
          => LET r == req[p]
                 out == ChangePasswordOutcome(users, r.user, r.userId,
                                              r.oldPassword, r.newPassword)
             IN Visible(sent') = out.visible /\ users' = out.users]_vars

\* a password has been changed by a request that presented the unexpired
\* session of another user
C28_Witness ==
    /\ sent.op = "changePassword" /\ sent.status = 204
    /\ \E s \in sessions : /\ s.id = ParseSessionToken(sent.echo.cookie)
                           /\ s.userId # sent.echo.userId
                           /\ Resolves(s.id) = {s.userId}
    /\ \E u \in users : u.id = sent.echo.userId

\* C23 as stated: GET /api/settings returns exactly the JSON object given to
\* the latest POST /api/settings answered 204, and {} when there was none.
C23_GetReturnsLastPosted ==
    sent.op = "settingsGet" =>
        /\ sent.status = 200
        /\ sent.body.json = IF posted.posted THEN posted.body ELSE EmptyObject

\* n is a double: at most MantissaBits significant bits
ExactDouble(n) == \E m \in 0..(2 ^ MantissaBits - 1), e \in 0..8 : n = m * 2 ^ e

\* C23: GET /api/settings returns the object given to the latest POST
\* answered 204, with the same keys and every number read as a double: a
\* number that is a double, a string and null come back unchanged, a number
\* with more precision comes back as a double, a number beyond the range of
\* a double comes back as null; it returns {} when no POST was answered 204.
C23_GetReturnsLastPostedAsDoubles ==
    sent.op = "settingsGet" =>
        /\ sent.status = 200
        /\ LET given == IF posted.posted THEN posted.body ELSE EmptyObject
               got == sent.body.json
           IN /\ DOMAIN got = DOMAIN given
              /\ \A k \in DOMAIN given :
                    IF given[k].t = "huge" THEN got[k] = JsonNull
                    ELSE IF given[k].t = "number" /\ ~ExactDouble(given[k].n)
                    THEN got[k].t = "number" /\ ExactDouble(got[k].n)
                    ELSE got[k] = given[k]

\* a second POST has replaced the stored object by one with fewer keys, and
\* GET has returned it
C23_Witness ==
    /\ sent.op = "settingsGet" /\ sent.status = 200
    /\ posted.posted /\ posted.replaced
    /\ DOMAIN posted.body = {MonthlyFitnessKey}
    /\ sent.body.json = posted.body

\* the sum of a sequence of integers
RECURSIVE Sum(_)
Sum(q) == IF q = <<>> THEN 0 ELSE q[1] + Sum(Tail(q))

\* the price of a member in exact arithmetic: the sum of pricing[key] over
\* the parts of the subscriptionType, a missing key counting 0
ExactMemberPrice(pricing, subscriptionTypes) ==
    Sum([i \in DOMAIN subscriptionTypes |->
            LET priceKey == formatSubscriptionTypeToKey(subscriptionTypes[i])
            IN IF priceKey \in DOMAIN pricing /\ pricing[priceKey].t = "number"
               THEN pricing[priceKey].n ELSE 0])
ExactRevenue(pricing, membersList) ==
    Sum([i \in DOMAIN membersList |->
            ExactMemberPrice(pricing, membersList[i].subscriptionType.parts)])
WithStartDate(membersList) == SelectSeq(membersList, LAMBDA m : m.startDate # NoDate)

\* C24 as stated: in the profits statistics totalMembers is the number of
\* member rows, totalRevenue is the sum of the member prices, and the
\* monthlyRevenue totals add up to the revenue of the members with a startDate.
C24_ProfitsSums ==
    sent.op = "profits" /\ sent.status = 200 =>
        LET stats == sent.body.json
            pricing == sent.echo.pricing
            membersList == sent.echo.membersList
        IN /\ stats.totalMembers = Len(membersList)
           /\ stats.totalRevenue.t = "number"
           /\ stats.totalRevenue.n = ExactRevenue(pricing, membersList)
           /\ \A i \in DOMAIN stats.monthlyRevenue : stats.monthlyRevenue[i].total.t = "number"
           /\ Sum([i \in DOMAIN stats.monthlyRevenue |-> stats.monthlyRevenue[i].total.n])
                  = ExactRevenue(pricing, WithStartDate(membersList))

\* every pricing value is a number, no part of a subscriptionType names a
\* property the pricing object only inherits, and the revenue is small
\* enough for every partial sum to be a double
ExactlySummable(pricing, membersList) ==
    /\ \A k \in DOMAIN pricing : pricing[k].t = "number"
    /\ \A i \in DOMAIN membersList : \A j \in DOMAIN membersList[i].subscriptionType.parts :
          formatSubscriptionTypeToKey(membersList[i].subscriptionType.parts[j])
              \notin ObjectPrototypeKeys \ DOMAIN pricing
    /\ ExactRevenue(pricing, membersList) < 2 ^ MantissaBits

\* C24: in the profits statistics totalMembers is the number of member rows;
\* when every pricing value is a non-negative integer, no part of a
\* subscriptionType names an inherited property of the pricing object and
\* the sum of all member prices is below 2^MantissaBits, totalRevenue is the
\* sum of the member prices and the monthlyRevenue totals add up to the
\* revenue of the members with a startDate.
C24_ProfitsSumsWhenExact ==
    sent.op = "profits" /\ sent.status = 200 =>
        LET stats == sent.body.json
            pricing == sent.echo.pricing
            membersList == sent.echo.membersList
        IN /\ stats.totalMembers = Len(membersList)
           /\ ExactlySummable(pricing, membersList) =>
                /\ stats.totalRevenue = JsonNumber(ExactRevenue(pricing, membersList))
                /\ \A i \in DOMAIN stats.monthlyRevenue :
                      stats.monthlyRevenue[i].total.t = "number"
                /\ Sum([i \in DOMAIN stats.monthlyRevenue |->
                           stats.monthlyRevenue[i].total.n])
                       = ExactRevenue(pricing, WithStartDate(membersList))

\* statistics over two members, one with two priced parts and a startDate,
\* one with a part that has no price and no startDate
C24_Witness ==
    /\ sent.op = "profits" /\ sent.status = 200
    /\ LET pricing == sent.echo.pricing
           membersList == sent.echo.membersList
       IN /\ ExactlySummable(pricing, membersList)
          /\ Len(membersList) = 2
          /\ DOMAIN pricing = {MonthlyFitnessKey}
          /\ membersList[1] = [subscriptionType |-> TextType(<<MonthlyFitness, DailyIron>>),
                               startDate |-> 1]
          /\ membersList[2] = [subscriptionType |-> TextType(<<MonthlyFitness>>),
                               startDate |-> NoDate]
          /\ sent.body.json.totalRevenue = JsonNumber(4)
          /\ Len(sent.body.json.monthlyRevenue) = 1

\* isAuthenticated is true exactly when user is not null
AuthenticatedIffUser == provider.isAuthenticated <=> provider.user # NoUser

\* a successful me-fetch or signIn sets both user and isAuthenticated, a
\* signOut whose fetch resolves clears both, a failed signIn or me-fetch or
\* a rejected fetch changes neither
SetsBothOrNeither ==
    \A res \in FetchOutcomes :
        /\ (FetchUserSettle(res) \/ SignInSettle(res)) =>
              IF res.ok
              THEN provider'.user = res.json /\ provider'.isAuthenticated
              ELSE /\ provider'.user = provider.user
                   /\ provider'.isAuthenticated = provider.isAuthenticated
        /\ SignOutSettle(res) =>
              IF res.rejected
              THEN /\ provider'.user = provider.user
                   /\ provider'.isAuthenticated = provider.isAuthenticated
              ELSE provider'.user = NoUser /\ ~provider'.isAuthenticated

\* C29: in the AuthProvider, whatever the order of the first me-fetch, the
\* signIn and the signOut calls, isAuthenticated is true exactly when user
\* is not null: a successful me-fetch or signIn sets both, a signOut whose
\* fetch resolves clears both, a failed signIn or a rejected fetch changes
\* neither.
C29_AuthenticatedIffUser == []AuthenticatedIffUser /\ [][SetsBothOrNeither]_vars

\* a signIn has set both after the first fetch had failed, while a signOut
\* is under way
C29_Witness ==
    /\ provider.isAuthenticated /\ provider.user = UserData(2)
    /\ ~provider.loading
    /\ pathname = "/"
    /\ calls = {"signOut"}

\* the first fetch has finished and nobody is authenticated on a page other
\* than '/'
MustRedirect == ~provider.loading /\ ~provider.isAuthenticated /\ pathname # "/"
RedirectIssued == pushed # "none"
RedirectAfterLoading == MustRedirect ~> RedirectIssued
LoadingEnds == provider.loading ~> ~provider.loading

\* C30 as stated: no redirect to '/' is issued while loading is true; once
\* the first fetch has finished and the user is not authenticated on a path
\* other than '/', a redirect is eventually issued; loading eventually
\* becomes false.
C30_NoRedirectWhileLoading ==
    /\ [][pushed' # pushed /\ pushed' # "none" => ~provider.loading]_vars
    /\ RedirectAfterLoading
    /\ LoadingEnds

\* C30: the redirect effect issues no redirect to '/' while loading is true
\* (signOut issues its own when its fetch resolves, loading or not); once
\* the first fetch has finished and the user is not authenticated on a path
\* other than '/', a redirect is eventually issued; loading eventually
\* becomes false, whether the fetch returns ok, returns not ok or rejects.
C30_EffectRedirectsOnlyAfterLoading ==
    /\ [][FlushEffects /\ pushed' # pushed => ~provider.loading]_vars
    /\ RedirectAfterLoading
    /\ LoadingEnds

\* the first fetch has failed on /dashboard and the effect has redirected
C30_Witness ==
    /\ pushed = "redirect"
    /\ MustRedirect
    /\ calls = {}
    /\ effectDue = {}
====
